---- MODULE Spec2Model ----
\* Model of python-algo/algo_strategy.py: the AlgoStrategy handlers
\* (on_game_start, on_turn, on_action_frame), the strategy pass
\* starter_strategy, and the methods of class Defence.
\*
\* A handler is one atomic action: the engine is single-threaded and the
\* driver delivers one notification at a time.  The Battlefield Interface
\* (gamelib.GameState) is not part of the source file; its calls are modelled
\* from the design document and every call made on it is logged in order.
EXTENDS Integers, Sequences, FiniteSets, TLC

VARIABLES phase, config, scored_on_locations, delivered, last

vars == <<phase, config, scored_on_locations, delivered, last>>

----------------------------------------------------------------------------
\* Bounds of the model
MaxEvents == 2      \* breach events delivered over the match
MaxFrameLen == 2    \* breach events carried by one action frame
MaxTurn == 6        \* largest turn number delivered

\* Program constants
StructThreshold == 12
StallTurns == 5
DensityThreshold == 10
Offset == 2
ScoutCount == 1000

\* Unit kinds (the shorthands read from the configuration)
WALL == "WALL"
SUPPORT == "SUPPORT"
TURRET == "TURRET"
SCOUT == "SCOUT"
DEMOLISHER == "DEMOLISHER"
INTERCEPTOR == "INTERCEPTOR"

NoLoc == <<-1, -1>>
NoKind == "-"

----------------------------------------------------------------------------
\* Inputs
BreachLocs == {<<13, 0>>, <<27, 13>>}
OwnerSelf == 1
OwnerOpponent == 2
Owners == {OwnerSelf, OwnerOpponent}
BreachEvents == [loc : BreachLocs, owner : Owners]

RECURSIVE SeqsUpTo(_, _)
SeqsUpTo(S, n) ==
    IF n = 0 THEN {<<>>}
    ELSE LET shorter == SeqsUpTo(S, n - 1)
         IN shorter \cup {Append(s, x) : s \in {t \in shorter : Len(t) = n - 1}, x \in S}

\* A frame is either well formed (a list of breach events) or defective: it
\* lacks the "events"/"breach" fields (KeyError before the loop), or one of its
\* breach entries lacks the owner field (IndexError at that entry).  breach
\* holds the entries the loop reads before the exception.
Malformed == [wellformed |-> FALSE, breach |-> <<>>, error |-> "KeyError"]
Truncated ==
    {[wellformed |-> FALSE, breach |-> b, error |-> "IndexError"] :
        b \in SeqsUpTo(BreachEvents, MaxFrameLen - 1)}
Frames ==
    {[wellformed |-> TRUE, breach |-> b, error |-> "none"] :
        b \in SeqsUpTo(BreachEvents, MaxFrameLen)}
    \cup {Malformed} \cup Truncated

TurretCosts == {2, 8}
Configs == [turretCost : TurretCosts]
NoConfig == [turretCost |-> 0]

DesignatedCells == {<<12, 11>>, <<15, 11>>}
StructPoints == {11, 12}
Densities == {10, 11}
Damages == {<<0, 1>>, <<1, 0>>, <<1, 1>>}
Estimates == {<<0, 1>>}

\* The turn snapshot: turn number, structure currency, own stationary units,
\* and the answers the analyzer queries will get this turn.
Snapshots ==
    [turn_number : 0..MaxTurn, sp : StructPoints, occupied : {{}},
     density : Densities, damage : Damages, estimate : Estimates]

NoSnapshot ==
    [turn_number |-> -1, sp |-> 0, occupied |-> {}, density |-> 0,
     damage |-> <<0, 0>>, estimate |-> <<0, 0>>]

----------------------------------------------------------------------------
\* Battlefield Interface (gamelib.GameState), from the design document.
\* A game state g is [cfg, occupied, sp, calls, exc]: the configuration, the
\* cells holding one of our stationary units, the structure currency, the log
\* of interface calls made so far, and the exception that ended the pass.
NoExc == "none"

Call(op, kind, loc, num, res, occ, aff) ==
    [op |-> op, kind |-> kind, loc |-> loc, num |-> num, res |-> res,
     occ |-> occ, aff |-> aff]

GameState(cfg, snap) ==
    [cfg |-> cfg, occupied |-> snap.occupied, sp |-> snap.sp, calls |-> <<>>,
     exc |-> NoExc]

Log(g, c) == [g EXCEPT !.calls = Append(@, c)]

Raise(g, e) == [g EXCEPT !.exc = e]

IsStationary(kind) == kind \in {WALL, SUPPORT, TURRET}

CostOf(cfg, kind) ==
    CASE kind = WALL -> 1
      [] kind = SUPPORT -> 4
      [] kind = TURRET -> cfg.turretCost
      [] OTHER -> 0

\* The diamond-shaped arena of 28 x 28 cells; our half is rows 0..13.
InArena(loc) ==
    LET x == loc[1]
        y == loc[2]
    IN IF y <= 13
       THEN y >= 0 /\ 13 - y <= x /\ x <= 14 + y
       ELSE y <= 27 /\ y - 14 <= x /\ x <= 41 - y

Blocked(g, loc) == loc \in g.occupied

Affordable(g, kind) == (~IsStationary(kind)) \/ CostOf(g.cfg, kind) <= g.sp

Legal(g, kind, loc) ==
    InArena(loc) /\ loc[2] <= 13 /\ ~Blocked(g, loc) /\ Affordable(g, kind)

\* can_spawn(kind, coordinate) -> boolean; the answer is the res field of the
\* logged call.
can_spawn(g, kind, loc) ==
    Log(g, Call("can_spawn", kind, loc, 1, Legal(g, kind, loc),
                Blocked(g, loc), Affordable(g, kind)))

Answer(g) == g.calls[Len(g.calls)].res

\* attempt_spawn(kind, coordinate, count): the intent is issued in any case;
\* a legal stationary placement occupies the cell and is paid for, a rejected
\* one is skipped silently.
attempt_spawn(g, kind, loc, num) ==
    LET ok == Legal(g, kind, loc)
        h == Log(g, Call("attempt_spawn", kind, loc, num, ok, Blocked(g, loc),
                         Affordable(g, kind)))
    IN IF ok /\ IsStationary(kind)
       THEN [h EXCEPT !.occupied = @ \cup {loc}, !.sp = @ - CostOf(g.cfg, kind)]
       ELSE h

\* attempt_spawn(kind, list of coordinates): one intent per coordinate, in order
RECURSIVE attempt_spawn_all(_, _, _)
attempt_spawn_all(g, kind, locs) ==
    IF g.exc # NoExc \/ locs = <<>> THEN g
    ELSE attempt_spawn_all(attempt_spawn(g, kind, Head(locs), 1), kind, Tail(locs))

\* attempt_upgrade(kind, coordinate)
attempt_upgrade(g, kind, loc) ==
    Log(g, Call("attempt_upgrade", kind, loc, 1, Blocked(g, loc), Blocked(g, loc),
                TRUE))

\* resources(0): the structure currency
get_resources(g) ==
    Log(g, Call("get_resources", NoKind, NoLoc, g.sp, TRUE, FALSE, TRUE))

\* analyze_enemy_defenses(coordinate) -> numeric strength estimate
analyze_enemy_defences(g, loc, value) ==
    Log(g, Call("analyze_enemy_defences", NoKind, loc, value, TRUE, FALSE, TRUE))

submit_turn(g) ==
    Log(g, Call("submit_turn", NoKind, NoLoc, 0, TRUE, FALSE, TRUE))

----------------------------------------------------------------------------
\* class Defence

\* The wall list of build_defences is written "[19, 13] [20, 13]": a list
\* subscripted by a tuple.  Evaluating the list display raises TypeError and
\* yields no list.
wall_locations == [exc |-> "TypeError", val |-> <<>>]

\* build_defences(self, game_state)
build_defences(g, snap) ==
    LET turret_locations == <<(<<11, 11>>), (<<16, 11>>)>>
        g1 == attempt_spawn_all(g, TURRET, turret_locations)
        g2 == attempt_spawn_all(g1, WALL, wall_locations.val)
        g3 == analyze_enemy_defences(g2, <<1, 11>>, snap.estimate[1])
        g4 == analyze_enemy_defences(g3, <<22, 11>>, snap.estimate[2])
        support_location == IF snap.estimate[1] < snap.estimate[2]
                            THEN <<(<<3, 11>>)>>
                            ELSE <<(<<24, 11>>)>>
    IN IF wall_locations.exc # NoExc
       THEN Raise(g1, wall_locations.exc)
       ELSE attempt_spawn_all(g4, SUPPORT, support_location)

\* build_reactive_defense(self, game_state): one turret intent per entry of
\* self.scored_on_locations, at the entry's coordinate moved by (2, 2)
RECURSIVE build_reactive_defense(_, _)
build_reactive_defense(g, locations) ==
    IF g.exc # NoExc \/ locations = <<>> THEN g
    ELSE LET location == Head(locations)
             build_location == <<location[1] + Offset, location[2] + Offset>>
         IN build_reactive_defense(attempt_spawn(g, TURRET, build_location, 1),
                                   Tail(locations))

\* if can_spawn(kind, check): attempt_spawn(kind, act)
SpawnIfCan(g, kind, check, act) ==
    LET q == can_spawn(g, kind, check)
    IN IF Answer(q) THEN attempt_spawn(q, kind, act, 1) ELSE q

\* if can_spawn(kind, loc): attempt_spawn(kind, loc) else: attempt_upgrade(kind, loc)
SpawnElseUpgrade(g, kind, loc) ==
    LET q == can_spawn(g, kind, loc)
    IN IF Answer(q) THEN attempt_spawn(q, kind, loc, 1)
       ELSE attempt_upgrade(q, kind, loc)

\* for i in range(lo, hi): if can_spawn(kind, [i, checkRow]):
\*     attempt_spawn(kind, [i, actRow])
RECURSIVE ForRange(_, _, _, _, _, _)
ForRange(g, kind, lo, hi, checkRow, actRow) ==
    IF g.exc # NoExc \/ lo >= hi THEN g
    ELSE ForRange(SpawnIfCan(g, kind, <<lo, checkRow>>, <<lo, actRow>>),
                  kind, lo + 1, hi, checkRow, actRow)

\* the four loops of the scarce branch of update_defence
ScarceFill(g) ==
    LET w1 == ForRange(g, WALL, 1, 10, 13, 13)
        w2 == ForRange(w1, WALL, 17, 27, 13, 13)
        s1 == ForRange(w2, SUPPORT, 1, 4, 12, 13)
    IN ForRange(s1, SUPPORT, 24, 27, 12, 13)

\* Variant of the sufficient branch's loops in which the support loops place
\* at the coordinate they checked (row 12)
SufficientFill_SameCell(g) ==
    LET w1 == ForRange(g, WALL, 1, 10, 13, 13)
        w2 == ForRange(w1, WALL, 17, 27, 13, 13)
        s1 == ForRange(w2, SUPPORT, 1, 4, 12, 12)
    IN ForRange(s1, SUPPORT, 24, 27, 12, 12)

\* Variant of the sufficient branch's loops that ends with the upgrade
\* fallback on the last wall cell
SufficientFill_UpgradeWall(g) ==
    LET w1 == ForRange(g, WALL, 1, 10, 13, 13)
        w2 == ForRange(w1, WALL, 17, 27, 13, 13)
        s1 == ForRange(w2, SUPPORT, 1, 4, 12, 13)
        s2 == ForRange(s1, SUPPORT, 24, 27, 12, 13)
    IN SpawnElseUpgrade(s2, WALL, <<26, 13>>)

\* the four loops of the sufficient branch of update_defence
SufficientFill(g) ==
    LET w1 == ForRange(g, WALL, 1, 10, 13, 13)
        w2 == ForRange(w1, WALL, 17, 27, 13, 13)
        s1 == ForRange(w2, SUPPORT, 1, 4, 12, 13)
    IN ForRange(s1, SUPPORT, 24, 27, 12, 13)

\* Variant of update_defence without the balance test: the upgrade fallback
\* is used at every balance
update_defence_NoGate(g) ==
    LET r == get_resources(g)
        t1 == SpawnElseUpgrade(r, TURRET, <<12, 11>>)
        t2 == SpawnElseUpgrade(t1, TURRET, <<15, 11>>)
    IN SufficientFill(t2)

\* Variant of update_defence whose sufficient branch repeats the first cell,
\* as the scarce branch does
update_defence_SameCell(g) ==
    LET r == get_resources(g)
        structPoints == g.sp
    IN IF structPoints < StructThreshold
       THEN LET t1 == SpawnIfCan(r, TURRET, <<12, 11>>, <<12, 11>>)
                t2 == SpawnIfCan(t1, TURRET, <<15, 11>>, <<12, 11>>)
            IN ScarceFill(t2)
       ELSE LET t1 == SpawnElseUpgrade(r, TURRET, <<12, 11>>)
                t2 == SpawnElseUpgrade(t1, TURRET, <<12, 11>>)
            IN SufficientFill(t2)

\* update_defence(self, game_state)
update_defence(g) ==
    LET r == get_resources(g)
        structPoints == g.sp
    IN IF structPoints < StructThreshold
       THEN LET t1 == SpawnIfCan(r, TURRET, <<12, 11>>, <<12, 11>>)
                t2 == SpawnIfCan(t1, TURRET, <<15, 11>>, <<12, 11>>)
            IN ScarceFill(t2)
       ELSE LET t1 == SpawnElseUpgrade(r, TURRET, <<12, 11>>)
                t2 == SpawnElseUpgrade(t1, TURRET, <<15, 11>>)
            IN SufficientFill(t2)

----------------------------------------------------------------------------
\* Helpers that starter_strategy calls and the source file does not define;
\* modelled from the design document (Battlefield Analyzer, Offense Planner).

\* the interceptor stall of the early game
stall_with_interceptors(g) ==
    Log(g, Call("stall_with_interceptors", INTERCEPTOR, NoLoc, 1, TRUE, FALSE, TRUE))

\* count of enemy units in rows 14 and 15
detect_enemy_unit(g, snap) ==
    Log(g, Call("detect_enemy_unit", NoKind, NoLoc, snap.density, TRUE, FALSE, TRUE))

\* the heavy-unit line assault
demolisher_line_strategy(g) ==
    Log(g, Call("demolisher_line_strategy", DEMOLISHER, NoLoc, 1, TRUE, FALSE, TRUE))

\* estimate the path damage of every candidate, in order
RECURSIVE estimate_all(_, _, _)
estimate_all(g, options, damage) ==
    IF g.exc # NoExc \/ options = <<>> THEN g
    ELSE estimate_all(Log(g, Call("estimate_path_damage", NoKind, Head(options),
                                  Head(damage), TRUE, FALSE, TRUE)),
                      Tail(options), Tail(damage))

\* the candidate of minimum predicted damage, the first one on a tie
least_damage_spawn_location(options, damage) ==
    LET best == CHOOSE i \in 1..Len(options) :
                    /\ \A j \in 1..Len(options) : damage[i] <= damage[j]
                    /\ \A j \in 1..(i - 1) : damage[j] > damage[i]
    IN options[best]

----------------------------------------------------------------------------
\* class AlgoStrategy

\* The methods defined in the body of class AlgoStrategy
AlgoStrategyMethods ==
    {"__init__", "on_game_start", "on_turn", "starter_strategy", "on_action_frame"}

\* The methods defined in the body of class Defence.  The class statement sits
\* inside the "if __name__ == '__main__'" block, after algo.start(): it is not
\* a base of AlgoStrategy and its methods are not attributes of the algo.
DefenceMethods == {"build_defences", "build_reactive_defense", "update_defence"}

\* Helpers the file calls on self and does not define
HelperMethods ==
    {"stall_with_interceptors", "detect_enemy_unit", "demolisher_line_strategy",
     "least_damage_spawn_location"}

\* self.<name> resolves
Resolves(name) == name \in AlgoStrategyMethods \cup HelperMethods

\* self.<name>(...): skipped when an exception is already propagating,
\* AttributeError when the attribute does not resolve
Invoke(name, g, result) ==
    IF g.exc # NoExc THEN g
    ELSE IF ~Resolves(name) THEN Raise(g, "AttributeError")
    ELSE result

\* the else branch of starter_strategy (turn_number >= 5)
Offense(g, snap) ==
    LET d == Invoke("detect_enemy_unit", g, detect_enemy_unit(g, snap))
        scout_spawn_location_options == <<(<<13, 0>>), (<<14, 0>>)>>
        e == Invoke("least_damage_spawn_location", d,
                    estimate_all(d, scout_spawn_location_options, snap.damage))
        best_location ==
            least_damage_spawn_location(scout_spawn_location_options, snap.damage)
        s == IF snap.turn_number % 2 = 1
             THEN IF e.exc # NoExc THEN e
                  ELSE attempt_spawn(e, SCOUT, best_location, ScoutCount)
             ELSE d
        support_locations == <<(<<13, 2>>), (<<14, 2>>), (<<13, 3>>), (<<14, 3>>)>>
    IN IF d.exc # NoExc THEN d
       ELSE IF snap.density > DensityThreshold
       THEN Invoke("demolisher_line_strategy", d, demolisher_line_strategy(d))
       ELSE IF s.exc # NoExc THEN s
       ELSE attempt_spawn_all(s, SUPPORT, support_locations)

\* starter_strategy(self, game_state)
starter_strategy(g, locations, snap) ==
    LET g1 == Invoke("build_defences", g, build_defences(g, snap))
        g2 == Invoke("build_reactive_defense", g1, build_reactive_defense(g1, locations))
        g3 == Invoke("update_defence", g2, update_defence(g2))
    IN IF g3.exc # NoExc THEN g3
       ELSE IF snap.turn_number < StallTurns
       THEN Invoke("stall_with_interceptors", g3, stall_with_interceptors(g3))
       ELSE Offense(g3, snap)

\* the record of the last operation: which one, its input, the interface
\* calls it made in order, and the exception that escaped it
Outcome(op, snap, g) == [op |-> op, snap |-> snap, calls |-> g.calls, exc |-> g.exc]

NoOutcome == [op |-> "none", snap |-> NoSnapshot, calls |-> <<>>, exc |-> NoExc]

Init ==
    /\ phase = "constructed"
    /\ config = NoConfig
    /\ scored_on_locations = <<>>
    /\ delivered = <<>>
    /\ last = NoOutcome

\* on_game_start(self, config): once, at match start
on_game_start(cfg) ==
    /\ phase = "constructed"
    /\ phase' = "running"
    /\ config' = cfg
    /\ scored_on_locations' = <<>>
    /\ last' = [NoOutcome EXCEPT !.op = "on_game_start"]
    /\ UNCHANGED delivered

\* Variant of on_turn that empties the breach history once the pass is over
on_turn_Consume(snap) ==
    /\ phase = "running"
    /\ LET game_state == GameState(config, snap)
           r == starter_strategy(game_state, scored_on_locations, snap)
           final == IF r.exc = NoExc THEN submit_turn(r) ELSE r
       IN last' = Outcome("on_turn", snap, final)
    /\ scored_on_locations' = <<>>
    /\ UNCHANGED <<phase, config, delivered>>

\* on_turn(self, turn_state)
on_turn(snap) ==
    /\ phase = "running"
    /\ LET game_state == GameState(config, snap)
           r == starter_strategy(game_state, scored_on_locations, snap)
           final == IF r.exc = NoExc THEN submit_turn(r) ELSE r
       IN last' = Outcome("on_turn", snap, final)
    /\ UNCHANGED <<phase, config, scored_on_locations, delivered>>

\* Variant of the breach loop without the owner test: every breach is recorded
RecordBreaches_AnyOwner(locations, breaches) ==
    locations \o [i \in 1..Len(breaches) |-> breaches[i].loc]

\* Variant of the breach loop that starts a fresh list on every frame
RecordBreaches_Fresh(locations, breaches) ==
    LET mine == SelectSeq(breaches, LAMBDA b : b.owner # 1)
    IN [i \in 1..Len(mine) |-> mine[i].loc]

\* the breach loop of on_action_frame
RECURSIVE RecordBreaches(_, _)
RecordBreaches(locations, breaches) ==
    IF breaches = <<>> THEN locations
    ELSE LET breach == Head(breaches)
             location == breach.loc
             unit_owner_self == (breach.owner = 1)
         IN RecordBreaches(IF ~unit_owner_self THEN Append(locations, location)
                           ELSE locations,
                           Tail(breaches))

\* on_action_frame(self, turn_string)
on_action_frame(frame) ==
    /\ phase = "running"
    /\ Len(delivered) + Len(frame.breach) <= MaxEvents
    /\ scored_on_locations' = RecordBreaches(scored_on_locations, frame.breach)
    /\ delivered' = delivered \o frame.breach
    /\ last' = [NoOutcome EXCEPT !.op = "on_action_frame", !.exc = frame.error]
    /\ UNCHANGED <<phase, config>>

Next ==
    \/ \E cfg \in Configs : on_game_start(cfg)
    \/ \E snap \in Snapshots : on_turn(snap)
    \/ \E frame \in Frames : on_action_frame(frame)

Spec == Init /\ [][Next]_vars

----------------------------------------------------------------------------
\* The methods of class Defence applied directly, as Defence.<method>(algo,
\* game_state), to a game state built from any snapshot.
DefencePoints == {11, 12, 40}
DefenceEstimates == {<<0, 1>>, <<1, 1>>, <<1, 0>>}

\* update_defence reads the balance and the occupancy of the snapshot
DefenceSnapshots ==
    [turn_number : {0}, sp : DefencePoints, occupied : SUBSET DesignatedCells,
     density : {0}, damage : {<<0, 0>>}, estimate : {<<0, 0>>}]

\* build_defences reads the two strength estimates
BaselineSnapshots ==
    [turn_number : {0}, sp : {40}, occupied : {{}},
     density : {0}, damage : {<<0, 0>>}, estimate : DefenceEstimates]

\* build_reactive_defense reads the breach history only
ReactiveSnapshots ==
    [turn_number : {0}, sp : {40}, occupied : {{}, {<<15, 2>>}},
     density : {0}, damage : {<<0, 0>>}, estimate : {<<0, 0>>}]

Defence_build_defences(snap) ==
    /\ phase = "running"
    /\ last' = Outcome("build_defences", snap,
                       build_defences(GameState(config, snap), snap))
    /\ UNCHANGED <<phase, config, scored_on_locations, delivered>>

Defence_build_reactive_defense(snap) ==
    /\ phase = "running"
    /\ last' = Outcome("build_reactive_defense", snap,
                       build_reactive_defense(GameState(config, snap),
                                              scored_on_locations))
    /\ UNCHANGED <<phase, config, scored_on_locations, delivered>>

Defence_update_defence(snap) ==
    /\ phase = "running"
    /\ last' = Outcome("update_defence", snap, update_defence(GameState(config, snap)))
    /\ UNCHANGED <<phase, config, scored_on_locations, delivered>>

NextDefence ==
    \/ Next
    \/ \E snap \in BaselineSnapshots : Defence_build_defences(snap)
    \/ \E snap \in ReactiveSnapshots : Defence_build_reactive_defense(snap)
    \/ \E snap \in DefenceSnapshots : Defence_update_defence(snap)

SpecDefence == Init /\ [][NextDefence]_vars

----------------------------------------------------------------------------
\* Properties.  They read the log of the last operation.
Calls == last.calls

IsUpgrade(c) == c.op = "attempt_upgrade"
IsSpawn(c) == c.op = "attempt_spawn"
IsIntent(c) == IsUpgrade(c) \/ IsSpawn(c)

Upgrades(calls) == SelectSeq(calls, IsUpgrade)
SpawnsOf(calls, kind) == SelectSeq(calls, LAMBDA c : IsSpawn(c) /\ c.kind = kind)
LocsOf(calls) == [i \in 1..Len(calls) |-> calls[i].loc]
After(calls, i) == SubSeq(calls, i + 1, Len(calls))

IsOpponent(b) == b.owner = OwnerOpponent
OpponentBreaches == SelectSeq(delivered, IsOpponent)

IsPrefix(s, t) == Len(s) <= Len(t) /\ SubSeq(t, 1, Len(s)) = s

\* C1: after any sequence of action frames the breach history is exactly the
\* coordinates of the opponent-owned breach events delivered so far, in
\* order: its length is their number and no self-owned event is in it.
C1_HistoryIsOpponentBreaches ==
    /\ Len(scored_on_locations) = Len(OpponentBreaches)
    /\ scored_on_locations = LocsOf(OpponentBreaches)

\* C1 witness: a self-owned and an opponent-owned breach were both delivered
C1_Witness ==
    /\ \E i \in DOMAIN delivered : delivered[i].owner = OwnerSelf
    /\ \E i \in DOMAIN delivered : delivered[i].owner = OwnerOpponent
    /\ Len(scored_on_locations) >= 1

\* C2: the breach history is empty at match start and every step of every
\* handler leaves the old history a prefix of the new one.
C2_HistoryAppendOnly ==
    [][/\ phase = "constructed" => scored_on_locations' = <<>>
       /\ IsPrefix(scored_on_locations, scored_on_locations')]_vars

\* C2 witness: a coordinate recorded twice, and a turn taken afterwards
C2_Witness ==
    /\ Len(scored_on_locations) >= 2
    /\ scored_on_locations[1] = scored_on_locations[2]
    /\ last.op = "on_turn"

\* C3 as claimed: in every turn the reactive turret intents are, in history
\* order, one per entry of the breach history at the entry moved by (2, 2).
BaselineTurrets == {<<11, 11>>, <<16, 11>>}

IsReactive(c) ==
    IsSpawn(c) /\ c.kind = TURRET /\ c.loc \notin BaselineTurrets \cup DesignatedCells

Reinforce(locations) ==
    [i \in 1..Len(locations) |-> <<locations[i][1] + 2, locations[i][2] + 2>>]

C3_Claim ==
    last.op = "on_turn" =>
        LocsOf(SelectSeq(Calls, IsReactive)) = Reinforce(scored_on_locations)

\* C4: when the balance read by update_defence is below 12, no upgrade intent
\* follows the read: every intent of the policy is a placement.
C4_ScarceNeverUpgrades ==
    \A i \in DOMAIN Calls :
        (Calls[i].op = "get_resources" /\ Calls[i].num < 12) =>
            \A j \in (i + 1)..Len(Calls) : IsIntent(Calls[j]) => IsSpawn(Calls[j])

\* C4 witness: update_defence ran with a balance below 12 on a board whose two
\* designated cells are occupied, and issued placement intents
C4_Witness ==
    /\ last.op = "update_defence"
    /\ last.snap.sp < 12
    /\ last.snap.occupied = DesignatedCells
    /\ \E i \in DOMAIN Calls : IsSpawn(Calls[i])

\* C5: when the balance read by update_defence is at least 12 and both
\* designated cells are occupied (they are in the snapshot the game state was
\* built from, and a pass never frees a cell), the policy issues exactly two
\* upgrade intents, (12,11) then (15,11), and no turret placement at either
\* cell.
C5_SufficientOccupiedUpgradesBoth ==
    \A i \in DOMAIN Calls :
        (/\ Calls[i].op = "get_resources"
         /\ Calls[i].num >= 12
         /\ DesignatedCells \subseteq last.snap.occupied) =>
            /\ LocsOf(Upgrades(After(Calls, i))) = <<(<<12, 11>>), (<<15, 11>>)>>
            /\ \A j \in (i + 1)..Len(Calls) :
                   ~(/\ IsSpawn(Calls[j])
                     /\ Calls[j].kind = TURRET
                     /\ Calls[j].loc \in DesignatedCells)

\* C5 witness: update_defence ran with a balance of at least 12 on a board
\* whose two designated cells are occupied
C5_Witness ==
    /\ last.op = "update_defence"
    /\ last.snap.sp >= 12
    /\ last.snap.occupied = DesignatedCells
    /\ Len(Upgrades(Calls)) = 2

\* C6 as claimed: an upgrade intent is issued only after a pre-check of the
\* same cell that found the cell occupied.
C6_Claim ==
    \A i \in DOMAIN Calls :
        IsUpgrade(Calls[i]) =>
            /\ i > 1
            /\ Calls[i - 1].op = "can_spawn"
            /\ Calls[i - 1].loc = Calls[i].loc
            /\ Calls[i - 1].occ

HasCall(op) == \E i \in DOMAIN Calls : Calls[i].op = op
StallRan == HasCall("stall_with_interceptors")
DensityQueried == HasCall("detect_enemy_unit")
LineAssault == HasCall("demolisher_line_strategy")
RushSpawns == SpawnsOf(Calls, SCOUT)

\* C7 as claimed: in every turn exactly one of the stall phase and the
\* density branch runs, the stall below turn 5 and the density branch from
\* turn 5 on.
C7_Claim ==
    last.op = "on_turn" =>
        /\ StallRan # DensityQueried
        /\ last.snap.turn_number < 5 =>
               StallRan /\ ~DensityQueried /\ ~LineAssault /\ RushSpawns = <<>>
        /\ last.snap.turn_number >= 5 => DensityQueried /\ ~StallRan

\* C8 as claimed: from turn 5 on, a density above 10 gives the line assault
\* and no rush spawn; a density of 10 or less gives no line assault.
C8_Claim ==
    (last.op = "on_turn" /\ last.snap.turn_number >= 5) =>
        /\ last.snap.density > 10 => LineAssault /\ RushSpawns = <<>>
        /\ last.snap.density <= 10 => ~LineAssault

\* C9 as claimed: from turn 5 on with density 10 or less, an odd turn
\* estimates both candidates and issues exactly one rush spawn of maximum
\* count at the candidate of lower predicted damage; an even turn issues none.
C9_Claim ==
    (last.op = "on_turn" /\ last.snap.turn_number >= 5 /\ last.snap.density <= 10) =>
        IF last.snap.turn_number % 2 = 1
        THEN /\ \A cand \in {<<13, 0>>, <<14, 0>>} :
                    \E i \in DOMAIN Calls :
                        Calls[i].op = "estimate_path_damage" /\ Calls[i].loc = cand
             /\ Len(RushSpawns) = 1
             /\ RushSpawns[1].num = ScoutCount
             /\ RushSpawns[1].loc =
                    IF last.snap.damage[2] < last.snap.damage[1]
                    THEN <<14, 0>> ELSE <<13, 0>>
        ELSE RushSpawns = <<>>

\* C10 as claimed: from turn 5 on, whichever branch is taken, the support
\* placement intents at (13,2), (14,2), (13,3), (14,3) are issued.
C10_Claim ==
    (last.op = "on_turn" /\ last.snap.turn_number >= 5) =>
        LocsOf(SpawnsOf(Calls, SUPPORT)) =
            <<(<<13, 2>>), (<<14, 2>>), (<<13, 3>>), (<<14, 3>>)>>

\* C11 as claimed: in every turn the baseline defense, the resource-gated
\* reinforcement and the stall or offense phase run in this order, the
\* reactive intents lie between the first two, and the submission is the last
\* call of the pass, after every intent.
IsSubmit(c) == c.op = "submit_turn"

C11_Claim ==
    last.op = "on_turn" =>
        \E b, u, o, s \in DOMAIN Calls :
            /\ b < u /\ u < o /\ o < s
            /\ IsSpawn(Calls[b]) /\ Calls[b].loc \in BaselineTurrets
            /\ Calls[u].op = "get_resources"
            /\ Calls[o].op \in {"stall_with_interceptors", "detect_enemy_unit"}
            /\ IsSubmit(Calls[s]) /\ s = Len(Calls)
            /\ \A i \in DOMAIN Calls : IsReactive(Calls[i]) => (b < i /\ i < u)
            /\ \A i \in DOMAIN Calls : IsIntent(Calls[i]) => i < s

\* C12 as claimed: every turn notification ends without an escaping exception
\* and with exactly one submission of the action list.
C12_Claim ==
    last.op = "on_turn" =>
        /\ last.exc = NoExc
        /\ Len(SelectSeq(Calls, IsSubmit)) = 1

\* C13 as claimed: a frame that lacks expected breach fields leaves the
\* breach history unchanged (and its processing is skipped, no exception
\* escaping the handler).
C13_Claim ==
    [][(last'.op = "on_action_frame" /\ scored_on_locations' # scored_on_locations)
           => last'.exc = NoExc]_vars

\* C14 as claimed: every placement intent of update_defence follows
\* immediately a successful can_spawn of the same kind at the same coordinate.
C14_Claim ==
    last.op = "update_defence" =>
        \A j \in DOMAIN Calls :
            IsSpawn(Calls[j]) =>
                /\ j > 1
                /\ Calls[j - 1].op = "can_spawn"
                /\ Calls[j - 1].res
                /\ Calls[j - 1].kind = Calls[j].kind
                /\ Calls[j - 1].loc = Calls[j].loc

\* C15 as claimed: every coordinate named in a placement or upgrade intent
\* lies within the arena.
C15_Claim ==
    \A i \in DOMAIN Calls : IsIntent(Calls[i]) => InArena(Calls[i].loc)

\* The game state at which the wall and support loops of the last
\* update_defence started: the snapshot, with the placements that succeeded
\* before the first wall pre-check applied.
FirstFill ==
    CHOOSE k \in DOMAIN Calls :
        Calls[k].kind = WALL /\ \A j \in 1..(k - 1) : Calls[j].kind # WALL

Placed(k) == {i \in 1..(k - 1) : IsSpawn(Calls[i]) /\ Calls[i].res}

RECURSIVE Spent(_)
Spent(I) ==
    IF I = {} THEN 0
    ELSE LET i == CHOOSE j \in I : TRUE
         IN CostOf(config, Calls[i].kind) + Spent(I \ {i})

FillStart ==
    [cfg |-> config,
     occupied |-> last.snap.occupied \cup {Calls[i].loc : i \in Placed(FirstFill)},
     sp |-> last.snap.sp - Spent(Placed(FirstFill)),
     calls |-> <<>>,
     exc |-> NoExc]

\* C16: from the same battlefield state the wall and support loops of the
\* scarce branch and those of the sufficient branch make the same pre-checks
\* and placement intents in the same order; in particular the loops a run of
\* update_defence made are those the other regime's loops make from the state
\* in which they started.
C16_FillsAgree ==
    last.op = "update_defence" =>
        /\ ScarceFill(FillStart).calls = SufficientFill(FillStart).calls
        /\ SubSeq(Calls, FirstFill, Len(Calls)) =
               IF last.snap.sp < 12
               THEN SufficientFill(FillStart).calls
               ELSE ScarceFill(FillStart).calls

\* C16 witness: a run of the sufficient regime whose loops issued wall and
\* support placements after a turret was placed
C16_Witness ==
    /\ last.op = "update_defence"
    /\ last.snap.sp >= 12
    /\ Placed(FirstFill) # {}
    /\ SpawnsOf(Calls, WALL) # <<>>
    /\ SpawnsOf(Calls, SUPPORT) # <<>>

\* C17: a step changes the breach history only if it is an action frame; a
\* turn's pass and every method of the pass leave it unchanged, and an action
\* frame makes no interface call (no intent, no submission).
C17_HistoryOnlyByFrames ==
    [][/\ scored_on_locations' # scored_on_locations => last'.op = "on_action_frame"
       /\ last'.op = "on_action_frame" => last'.calls = <<>>]_vars

\* C17 witness: a turn taken with a recorded breach, the breach still recorded
C17_Witness ==
    /\ last.op = "on_turn"
    /\ Len(scored_on_locations) >= 1

\* C18 as claimed: baseline placement issues exactly one support intent, at
\* (3,11) when the estimate at (1,11) is below the one at (22,11), at (24,11)
\* otherwise.
IsBaselineSupport(c) ==
    IsSpawn(c) /\ c.kind = SUPPORT /\ c.loc \in {<<3, 11>>, <<24, 11>>}

C18_Claim ==
    last.op \in {"on_turn", "build_defences"} =>
        LocsOf(SelectSeq(Calls, IsBaselineSupport)) =
            IF last.snap.estimate[1] < last.snap.estimate[2]
            THEN <<(<<3, 11>>)>>
            ELSE <<(<<24, 11>>)>>

\* C19: every upgrade intent is a turret upgrade at (12,11) or (15,11), and
\* one operation issues at most two of them.
C19_UpgradesOnlyDesignatedTurrets ==
    /\ \A i \in DOMAIN Calls :
           IsUpgrade(Calls[i]) =>
               Calls[i].kind = TURRET /\ Calls[i].loc \in {<<12, 11>>, <<15, 11>>}
    /\ Len(Upgrades(Calls)) <= 2

\* C19 witness: update_defence issued two upgrade intents and then went
\* through the wall and support loops
C19_Witness ==
    /\ last.op = "update_defence"
    /\ Len(Upgrades(Calls)) = 2
    /\ \E i \in DOMAIN Calls : Calls[i].kind = SUPPORT

====
